---- MODULE Spec2Model ----
(***************************************************************************)
(* A model of joeynmt/metrics.py and joeynmt/helpers.py: the token-level   *)
(* reward functions, the binary F1 utility, the vocabulary builder, the    *)
(* beam tiler and the weighted corpus reader.                              *)
(*                                                                         *)
(* Conventions.  Python indexes from 0, TLA+ sequences from 1: position k  *)
(* of the source is position k+1 here; distances and run lengths are       *)
(* unaffected.  A float is kept exact as a fraction <<n, d>>, d > 0.  A    *)
(* call ends either with a value or with the exception it raises:          *)
(* [status |-> "ok", value |-> v] or [status |-> "AssertionError", ...].   *)
(***************************************************************************)
EXTENDS Integers, Sequences, FiniteSets, TLC

VARIABLES op, args, result, lineno, examples

vars == <<op, args, result, lineno, examples>>

\* ------------------------------------------------------------------ bounds

\* A grid has at most MaxCells cells (batch * time).
MaxCells == 4
\* Token ids are 1..MaxId.
MaxId == 2
\* A binary array handed to f1_bin has at most MaxLen entries.
MaxLen == 3
\* The training corpus handed to build_vocab has at most MaxCorpus tokens.
MaxCorpus == 5
\* A tensor handed to tile has at most MaxRank axes of size at most MaxSize, and
\* is tiled at most MaxCount times.
MaxRank == 3
MaxSize == 2
MaxCount == 3
\* A corpus or weight file has at most MaxLines lines.
MaxLines == 2
\* token_accuracy gets at most MaxSents sentences of at most MaxChars characters.
MaxSents == 2
MaxChars == 2

\* ----------------------------------------------------------------- helpers

Ok(v) == [status |-> "ok", value |-> v]
Raise(e) == [status |-> e, value |-> <<>>]
NoResult == [status |-> "none", value |-> <<>>]

Abs(n) == IF n < 0 THEN -n ELSE n
Min2(a, b) == IF a <= b THEN a ELSE b
SetMin(S) == CHOOSE m \in S : \A n \in S : m <= n
SetMax(S) == CHOOSE m \in S : \A n \in S : m >= n

\* Floats as exact fractions.
Zero == <<0, 1>>
One == <<1, 1>>
RatEq(a, b) == a[1] * b[2] = b[1] * a[2]

\* gold.shape / pred.shape of a rectangular batch x time grid.
Shape(grid) == <<Len(grid), Len(grid[1])>>
\* np.zeros_like(pred, dtype=float)
ZerosLike(grid) == [j \in 1..Len(grid) |-> [k \in 1..Len(grid[j]) |-> Zero]]
\* `p_i in g` on a numpy row
In(v, row) == \E i \in 1..Len(row) : row[i] = v

\* ------------------------------------------------------- token_edit_reward

\* np.where(g == p_i)[0]
p_index(g, p_i) == {i \in 1..Len(g) : g[i] = p_i}

\* A faulty variant of closest_dist: np.min(k - p_index[0]) without np.abs.
closest_dist_signed(g, p_i, k) == SetMin({k - i : i \in p_index(g, p_i)})

\* np.abs(np.min(k - p_index[0]))
closest_dist(g, p_i, k) == Abs(SetMin({k - i : i \in p_index(g, p_i)}))

\* 1 - (closest_dist / length)
shift_reward(g, p_i, k, length) ==
    <<length - closest_dist(g, p_i, k), length>>

\* The body of the loop over time, for one position k of one row.
EditCell(g, p, k, shifted, length) ==
    IF p[k] = g[k] THEN One
    ELSE IF In(p[k], g) /\ shifted THEN shift_reward(g, p[k], k, length)
    ELSE Zero

token_edit_reward(gold, pred, shifted) ==
    IF Shape(gold) # Shape(pred) THEN Raise("AssertionError")
    ELSE LET length == Shape(gold)[2]
         IN  Ok([j \in 1..Len(pred) |->
                   [k \in 1..Len(pred[j]) |->
                       EditCell(gold[j], pred[j], k, shifted, length)]])

\* -------------------------------------------------------- token_lcs_reward

\* m = [[0] * (1 + len(gold)) for i in range(1 + len(pred))]; longest, x_longest = 0, 0
LcsInit(pred, gold) ==
    [m |-> [x \in 0..Len(pred) |-> [y \in 0..Len(gold) |-> 0]],
     longest |-> 0, x_longest |-> 0]

\* A faulty variant of LcsStep: `>=` for `>`, which keeps the last maximal run.
LcsStepGeq(st, pred, gold, x, y) ==
    IF pred[x] = gold[y]
    THEN LET v == st.m[x - 1][y - 1] + 1
             m2 == [st.m EXCEPT ![x][y] = v]
         IN  IF v >= st.longest
             THEN [m |-> m2, longest |-> v, x_longest |-> x]
             ELSE [st EXCEPT !.m = m2]
    ELSE [st EXCEPT !.m[x][y] = 0]

\* The body of the inner loop, for the cell (x, y) of the table.
LcsStep(st, pred, gold, x, y) ==
    IF pred[x] = gold[y]
    THEN LET v == st.m[x - 1][y - 1] + 1
             m2 == [st.m EXCEPT ![x][y] = v]
         IN  IF v > st.longest
             THEN [m |-> m2, longest |-> v, x_longest |-> x]
             ELSE [st EXCEPT !.m = m2]
    ELSE [st EXCEPT !.m[x][y] = 0]

\* for x in range(1, 1 + len(pred)): for y in range(1, 1 + len(gold)): ...
RECURSIVE LcsScan(_, _, _, _, _)
LcsScan(st, pred, gold, x, y) ==
    IF x > Len(pred) THEN st
    ELSE IF y > Len(gold) THEN LcsScan(st, pred, gold, x + 1, 1)
    ELSE LcsScan(LcsStep(st, pred, gold, x, y), pred, gold, x, y + 1)

\* A faulty variant of longest_common_substring_rewards: the slice taken one
\* position to the right, x_longest read as the index of the run's last item.
longest_common_substring_rewards_shifted(pred, gold) ==
    LET st == LcsScan(LcsInit(pred, gold), pred, gold, 1, 1)
    IN  [k \in 1..Len(pred) |->
            IF st.x_longest - st.longest + 1 < k /\ k <= st.x_longest + 1
            THEN One ELSE Zero]

\* rewards = np.zeros(len(pred)); rewards[x_longest - longest: x_longest] = 1
longest_common_substring_rewards(pred, gold) ==
    LET st == LcsScan(LcsInit(pred, gold), pred, gold, 1, 1)
    IN  [k \in 1..Len(pred) |->
            IF st.x_longest - st.longest < k /\ k <= st.x_longest
            THEN One ELSE Zero]

\* zip(gold, pred) stops at the shorter batch; the other rows keep their zeros.
token_lcs_reward(gold, pred) ==
    Ok([j \in 1..Len(pred) |->
          IF j <= Min2(Len(gold), Len(pred))
          THEN longest_common_substring_rewards(pred[j], gold[j])
          ELSE ZerosLike(pred)[j]])

\* ----------------------------------------------------- token_recall_reward

\* A faulty variant of RecallCell: membership in the whole gold grid, not in row j.
RecallCellAnyRow(gold, pred, j, k) ==
    IF \E jj \in 1..Len(gold) : In(pred[j][k], gold[jj]) THEN One ELSE Zero

\* The body of the loop over time: `if p_i in g: rewards[j,k] = 1`.
RecallCell(gold, pred, j, k) ==
    IF In(pred[j][k], gold[j]) THEN One ELSE Zero

token_recall_reward(gold, pred) ==
    Ok([j \in 1..Len(pred) |->
          [k \in 1..Len(pred[j]) |->
              IF j <= Min2(Len(gold), Len(pred))
              THEN RecallCell(gold, pred, j, k)
              ELSE Zero]])

\* ------------------------------------------------- the reward engine: calls

Ids == 1..MaxId
Shapes == {s \in (1..MaxCells) \X (1..MaxCells) : s[1] * s[2] <= MaxCells}
Grids(s) == [1..s[1] -> [1..s[2] -> Ids]]

Idle == op = "idle"

Return ==
    /\ op # "idle"
    /\ op' = "idle" /\ args' = <<>> /\ result' = NoResult
    /\ lineno' = 0 /\ examples' = <<>>

InitIdle ==
    /\ op = "idle" /\ args = <<>> /\ result = NoResult
    /\ lineno = 0 /\ examples = <<>>

CallEdit(gold, pred, shifted) ==
    /\ op' = "token_edit_reward"
    /\ args' = [gold |-> gold, pred |-> pred, shifted |-> shifted]
    /\ result' = token_edit_reward(gold, pred, shifted)
    /\ UNCHANGED <<lineno, examples>>

CallLcs(gold, pred) ==
    /\ op' = "token_lcs_reward"
    /\ args' = [gold |-> gold, pred |-> pred]
    /\ result' = token_lcs_reward(gold, pred)
    /\ UNCHANGED <<lineno, examples>>

CallRecall(gold, pred) ==
    /\ op' = "token_recall_reward"
    /\ args' = [gold |-> gold, pred |-> pred]
    /\ result' = token_recall_reward(gold, pred)
    /\ UNCHANGED <<lineno, examples>>

\* Calls on two grids of one shape.
TokenEditReward ==
    /\ Idle
    /\ \E s \in Shapes : \E gold \in Grids(s), pred \in Grids(s) :
        \E shifted \in BOOLEAN : CallEdit(gold, pred, shifted)

TokenLcsReward ==
    /\ Idle
    /\ \E s \in Shapes : \E gold \in Grids(s), pred \in Grids(s) :
        CallLcs(gold, pred)

TokenRecallReward ==
    /\ Idle
    /\ \E s \in Shapes : \E gold \in Grids(s), pred \in Grids(s) :
        CallRecall(gold, pred)

NextReward == TokenEditReward \/ TokenLcsReward \/ TokenRecallReward \/ Return

SpecReward == InitIdle /\ [][NextReward]_vars

\* Calls on two grids of any two shapes.
TokenEditRewardAnyShape ==
    /\ Idle
    /\ \E sg \in Shapes, sp \in Shapes : \E gold \in Grids(sg), pred \in Grids(sp) :
        \E shifted \in BOOLEAN : CallEdit(gold, pred, shifted)

TokenLcsRewardAnyShape ==
    /\ Idle
    /\ \E sg \in Shapes, sp \in Shapes : \E gold \in Grids(sg), pred \in Grids(sp) :
        CallLcs(gold, pred)

TokenRecallRewardAnyShape ==
    /\ Idle
    /\ \E sg \in Shapes, sp \in Shapes : \E gold \in Grids(sg), pred \in Grids(sp) :
        CallRecall(gold, pred)

NextShapes ==
    \/ TokenEditRewardAnyShape
    \/ TokenLcsRewardAnyShape
    \/ TokenRecallRewardAnyShape
    \/ Return

SpecShapes == InitIdle /\ [][NextShapes]_vars

\* ------------------------------------------------ the reward engine: claims

IsCall(name) == op = name /\ result.status = "ok"

\* A common contiguous run of length n: pred[s..s+n-1] = gold[o..o+n-1].
CommonRun(p, g, s, o, n) ==
    /\ n >= 1 /\ s + n - 1 <= Len(p) /\ o + n - 1 <= Len(g)
    /\ \A i \in 0..(n - 1) : p[s + i] = g[o + i]

RunLengths(p, g) ==
    {0} \cup {n \in 1..Len(p) :
                \E s \in 1..Len(p), o \in 1..Len(g) : CommonRun(p, g, s, o, n)}

\* The common runs of maximal length, each as <<start in pred, start in gold>>.
MaxRuns(p, g) ==
    LET n == SetMax(RunLengths(p, g))
    IN  {r \in (1..Len(p)) \X (1..Len(g)) : CommonRun(p, g, r[1], r[2], n)}

\* Two or more runs share the maximum length.
Tie(p, g) == Cardinality(MaxRuns(p, g)) >= 2

\* The scan visits runs by their end in pred, then by their end in gold.
FirstRunStart(p, g) == SetMin({r[1] : r \in MaxRuns(p, g)})
LastRunStart(p, g) == SetMax({r[1] : r \in MaxRuns(p, g)})

\* Reward 1 on pred positions s..s+n-1 and 0 elsewhere.
RunRewards(p, s, n) ==
    [k \in 1..Len(p) |-> IF s <= k /\ k < s + n THEN One ELSE Zero]

\* C1, as stated: when two or more common runs share the maximum length,
\* token_lcs_reward rewards the positions of the maximal run met last in the
\* scan.
C1_LastRunKept ==
    IsCall("token_lcs_reward") =>
        \A j \in 1..Len(args.pred) :
            Tie(args.pred[j], args.gold[j]) =>
                result.value[j] =
                    RunRewards(args.pred[j],
                               LastRunStart(args.pred[j], args.gold[j]),
                               SetMax(RunLengths(args.pred[j], args.gold[j])))

\* C1, amended: when two or more common runs share the maximum length,
\* token_lcs_reward rewards the positions of the maximal run met first in the
\* scan (the one that ends earliest in the predicted row), and no others.
C1_FirstRunKept ==
    IsCall("token_lcs_reward") =>
        \A j \in 1..Len(args.pred) :
            Tie(args.pred[j], args.gold[j]) =>
                result.value[j] =
                    RunRewards(args.pred[j],
                               FirstRunStart(args.pred[j], args.gold[j]),
                               SetMax(RunLengths(args.pred[j], args.gold[j])))

\* A row with two maximal runs at different predicted positions, the first of
\* which was rewarded.
C1_Witness ==
    /\ IsCall("token_lcs_reward")
    /\ \E j \in 1..Len(args.pred) :
        /\ Tie(args.pred[j], args.gold[j])
        /\ FirstRunStart(args.pred[j], args.gold[j])
              # LastRunStart(args.pred[j], args.gold[j])
        /\ result.value[j][FirstRunStart(args.pred[j], args.gold[j])] = One
        /\ result.value[j][Len(args.pred[j])] = Zero

\* The minimum over the gold positions i holding id v of |k - i|.
MinDistance(g, v, k) == SetMin({Abs(k - i) : i \in {i \in 1..Len(g) : g[i] = v}})

\* C2: with shifted=True, a predicted id that differs from the gold id at k
\* but occurs elsewhere in the gold row is rewarded 1 - d/L, d the minimum
\* distance from k to a gold position holding it, L the time length.
C2_ShiftRewardIsMinDistance ==
    (IsCall("token_edit_reward") /\ args.shifted) =>
        \A j \in 1..Len(args.pred) : \A k \in 1..Len(args.pred[j]) :
            (args.pred[j][k] # args.gold[j][k]
                /\ In(args.pred[j][k], args.gold[j])) =>
                RatEq(result.value[j][k],
                      <<Len(args.gold[j])
                           - MinDistance(args.gold[j], args.pred[j][k], k),
                        Len(args.gold[j])>>)

\* C3: each of the three reward functions fails, returning no grid, when the
\* gold grid and the predicted grid differ in shape.
C3_ShapeMismatchIsFatal ==
    (op \in {"token_edit_reward", "token_lcs_reward", "token_recall_reward"}
        /\ Shape(args.gold) # Shape(args.pred)) =>
        result.status # "ok"

\* C10: token_recall_reward gives (j, t) the reward 1 if the predicted id at
\* (j, t) occurs in gold row j and 0 otherwise, whatever the other rows hold
\* and wherever the match stands.
C10_RecallIsRowMembership ==
    op = "token_recall_reward" =>
        /\ result.status = "ok"
        /\ Shape(result.value) = Shape(args.pred)
        /\ \A j \in 1..Len(args.pred) : \A t \in 1..Len(args.pred[j]) :
            /\ result.value[j][t] \in {Zero, One}
            /\ result.value[j][t] = One
                 <=> args.pred[j][t] \in {args.gold[j][i] : i \in 1..Len(args.gold[j])}

\* A predicted id absent from its own gold row and present in another row's,
\* rewarded 0, beside one matched away from its own position, rewarded 1.
C10_Witness ==
    /\ IsCall("token_recall_reward")
    /\ \E j \in 1..Len(args.pred), jj \in 1..Len(args.pred) :
        \E t \in 1..Len(args.pred[j]) :
            /\ j # jj
            /\ ~In(args.pred[j][t], args.gold[j])
            /\ In(args.pred[j][t], args.gold[jj])
            /\ result.value[j][t] = Zero
    /\ \E j \in 1..Len(args.pred) : \E t \in 1..Len(args.pred[j]) :
            /\ args.pred[j][t] # args.gold[j][t]
            /\ In(args.pred[j][t], args.gold[j])
            /\ result.value[j][t] = One

\* The predicted positions of row j rewarded 1.
Rewarded(j) == {k \in 1..Len(args.pred[j]) : result.value[j][k] = One}

\* C12: in every row, the positions token_lcs_reward rewards with 1 form one
\* contiguous block of predicted positions (or none) whose tokens occur
\* contiguously in the gold row, the block is as long as the longest common
\* contiguous substring of the two rows, and every other position has 0.
C12_LcsBlock ==
    op = "token_lcs_reward" =>
        /\ result.status = "ok"
        /\ Shape(result.value) = Shape(args.pred)
        /\ \A j \in 1..Len(args.pred) :
            LET p == args.pred[j]
                g == args.gold[j]
                n == SetMax(RunLengths(p, g))
            IN  /\ \A k \in 1..Len(p) : result.value[j][k] \in {Zero, One}
                /\ Cardinality(Rewarded(j)) = n
                /\ n > 0 =>
                      \E s \in 1..Len(p) :
                          /\ Rewarded(j) = s..(s + n - 1)
                          /\ \E o \in 1..Len(g) : CommonRun(p, g, s, o, n)

\* A row of four whose longest common run is the two middle predicted
\* positions: rewards 0, 1, 1, 0.
C12_Witness ==
    /\ IsCall("token_lcs_reward")
    /\ \E j \in 1..Len(args.pred) :
        /\ Len(args.pred[j]) = 4
        /\ result.value[j] = <<Zero, One, One, Zero>>
        /\ ~In(args.pred[j][1], args.gold[j])
        /\ ~In(args.pred[j][4], args.gold[j])

\* The reward at (j, k) as a fraction n/d, d > 0, compared with 0 and 1.
Positive(a) == a[1] > 0 /\ a[2] > 0
AtMostOne(a) == a[2] > 0 /\ a[1] <= a[2]

\* C13: every entry of token_edit_reward's grid lies in [0, 1]; with
\* shifted=True an entry is positive exactly when the predicted id occurs in
\* the same gold row, and 1 exactly when predicted and gold id agree at the
\* position; with shifted=False every entry is 0 or 1.
C13_EditRewardRange ==
    IsCall("token_edit_reward") =>
        \A j \in 1..Len(args.pred) : \A k \in 1..Len(args.pred[j]) :
            LET r == result.value[j][k]
            IN  /\ r[1] >= 0 /\ AtMostOne(r)
                /\ args.shifted =>
                      /\ Positive(r) <=>
                            args.pred[j][k] \in
                                {args.gold[j][i] : i \in 1..Len(args.gold[j])}
                      /\ RatEq(r, One) <=> args.pred[j][k] = args.gold[j][k]
                /\ ~args.shifted => (RatEq(r, Zero) \/ RatEq(r, One))

\* With shifted=True, an id predicted away from its gold position and given a
\* reward strictly between 0 and 1, beside an id absent from the gold row and
\* given 0.
C13_Witness ==
    /\ IsCall("token_edit_reward") /\ args.shifted
    /\ \E j \in 1..Len(args.pred) : \E k \in 1..Len(args.pred[j]) :
        /\ args.pred[j][k] # args.gold[j][k]
        /\ In(args.pred[j][k], args.gold[j])
        /\ Positive(result.value[j][k])
        /\ ~RatEq(result.value[j][k], One)
    /\ \E j \in 1..Len(args.pred) : \E k \in 1..Len(args.pred[j]) :
        /\ ~In(args.pred[j][k], args.gold[j])
        /\ RatEq(result.value[j][k], Zero)

\* ------------------------------------------------------------------ f1_bin

\* numpy floats as fractions <<n, d>>: d = 0 is nan (n = 0) or inf (n # 0),
\* what a division by zero of numpy scalars yields (with a warning, no
\* exception).
NaN == <<0, 0>>
IsNaN(a) == a[1] = 0 /\ a[2] = 0

\* int64 / int64, and float / float
NpDiv(a, b) ==
    IF IsNaN(a) \/ IsNaN(b) THEN NaN
    ELSE IF b[1] = 0 /\ b[2] # 0
         THEN (IF a[1] = 0 THEN NaN ELSE <<a[1], 0>>)
    ELSE <<a[1] * b[2], a[2] * b[1]>>

NpMul(a, b) == IF IsNaN(a) \/ IsNaN(b) THEN NaN ELSE <<a[1] * b[1], a[2] * b[2]>>

NpAdd(a, b) ==
    IF IsNaN(a) \/ IsNaN(b) THEN NaN
    ELSE IF a[2] = 0 THEN a
    ELSE IF b[2] = 0 THEN b
    ELSE <<a[1] * b[2] + b[1] * a[2], a[2] * b[2]>>

\* `x > 0`: false of nan
NpGt0(a) == ~IsNaN(a) /\ a[1] > 0

OfInt(n) == <<n, 1>>

\* `~x` and `x & y` of two's-complement integers, one operand of & in {0, 1}
Invert(x) == -x - 1
BitAnd(x, y) == (x % 2) * (y % 2)

\* array.sum()
ArraySum(array) ==
    LET Sum[i \in 0..Len(array)] == IF i = 0 THEN 0 ELSE Sum[i - 1] + array[i]
    IN  Sum[Len(array)]

\* A faulty variant of F1Score: the quotient without the `if (p + r) > 0 else 0`.
F1ScoreUnguarded(prec, rec) ==
    NpDiv(NpMul(OfInt(2), NpMul(prec, rec)), NpAdd(prec, rec))

\* 2 * (prec * rec) / (prec + rec) if (prec + rec) > 0 else 0
F1Score(prec, rec) ==
    IF NpGt0(NpAdd(prec, rec))
    THEN NpDiv(NpMul(OfInt(2), NpMul(prec, rec)), NpAdd(prec, rec))
    ELSE Zero

f1_bin(hypotheses, references) ==
    IF Len(hypotheses) # Len(references) THEN Raise("AssertionError")
    ELSE
    LET n == Len(hypotheses)
        tp_1 == ArraySum([i \in 1..n |-> BitAnd(hypotheses[i], references[i])])
        tp_0 == ArraySum([i \in 1..n |->
                             BitAnd(1 - hypotheses[i], 1 - references[i])])
        fp_1 == ArraySum([i \in 1..n |->
                             BitAnd(hypotheses[i], Invert(references[i]))])
        fn_1 == ArraySum([i \in 1..n |->
                             BitAnd(Invert(hypotheses[i]), references[i])])
        prec_1 == NpDiv(OfInt(tp_1), OfInt(tp_1 + fp_1))
        rec_1 == NpDiv(OfInt(tp_1), OfInt(tp_1 + fn_1))
        f1_1 == F1Score(prec_1, rec_1)
        prec_0 == NpDiv(OfInt(tp_0), OfInt(tp_0 + fn_1))
        rec_0 == NpDiv(OfInt(tp_0), OfInt(tp_0 + fp_1))
        f1_0 == F1Score(prec_0, rec_0)
    IN  IF tp_0 + tp_1 + fn_1 + fp_1 # n THEN Raise("AssertionError")
        ELSE Ok(<<f1_1, f1_0>>)

BinaryArrays == UNION {[1..n -> {0, 1}] : n \in 0..MaxLen}

F1Bin ==
    /\ Idle
    /\ \E hypotheses \in BinaryArrays, references \in BinaryArrays :
        /\ op' = "f1_bin"
        /\ args' = [hypotheses |-> hypotheses, references |-> references]
        /\ result' = f1_bin(hypotheses, references)
        /\ UNCHANGED <<lineno, examples>>

NextF1 == F1Bin \/ Return

SpecF1 == InitIdle /\ [][NextF1]_vars

\* The positions where the array holds class c.
Members(array, c) == {i \in 1..Len(array) : array[i] = c}

\* Class c's precision + recall is zero or undefined: no predicted member, no
\* reference member, or no member in common.
NoF1(c) ==
    \/ Members(args.hypotheses, c) = {}
    \/ Members(args.references, c) = {}
    \/ Members(args.hypotheses, c) \cap Members(args.references, c) = {}

IsZero(a) == a[1] = 0 /\ a[2] # 0

\* C9: on two equal-length 0/1 arrays f1_bin returns a pair without failing,
\* and the F1 of a class is 0 whenever the class's precision + recall is zero
\* or undefined because of a zero denominator.
C9_F1ZeroNotFailure ==
    (op = "f1_bin" /\ Len(args.hypotheses) = Len(args.references)) =>
        /\ result.status = "ok"
        /\ Len(result.value) = 2
        /\ NoF1(1) => IsZero(result.value[1])
        /\ NoF1(0) => IsZero(result.value[2])

\* Two all-zero arrays: class 1 has no member at all and an F1 of 0.
C9_Witness ==
    /\ IsCall("f1_bin")
    /\ Len(args.hypotheses) = MaxLen /\ Len(args.references) = MaxLen
    /\ Members(args.hypotheses, 1) = {} /\ Members(args.references, 1) = {}
    /\ IsZero(result.value[1])
    /\ RatEq(result.value[2], One)

\* ------------------------------------------------------------- build_vocab

\* The token types of the corpus, in alphabetical (string) order.
Alphabet == <<"a", "b", "c">>
Rank(t) == CHOOSE i \in 1..Len(Alphabet) : Alphabet[i] = t

\* specials = [UNK_TOKEN, PAD_TOKEN, BOS_TOKEN, EOS_TOKEN]
specials == <<"UNK_TOKEN", "PAD_TOKEN", "BOS_TOKEN", "EOS_TOKEN">>
\* DEFAULT_UNK_ID(), as a position of a 1-based sequence
DEFAULT_UNK_ID == 1

\* Counter(tokens).items(): <<token, count>> pairs in order of first occurrence
Counter(tokens) ==
    LET firsts == {i \in 1..Len(tokens) : \A h \in 1..(i - 1) : tokens[h] # tokens[i]}
        count(t) == Cardinality({i \in 1..Len(tokens) : tokens[i] = t})
        Build[i \in 0..Len(tokens)] ==
            IF i = 0 THEN <<>>
            ELSE IF i \in firsts
                 THEN Append(Build[i - 1], <<tokens[i], count(tokens[i])>>)
                 ELSE Build[i - 1]
    IN  Build[Len(tokens)]

\* Counter({t: c for t, c in counter.items() if c >= min_freq})
filter_min(counter, min_freq) ==
    SelectSeq(counter, LAMBDA tup : tup[2] >= min_freq)

\* One insertion of a stable sort by key: the item goes before the first
\* item of a greater key, and so after every item of the same key.
InsertStable(sorted, item, key) ==
    LET after == {i \in 1..Len(sorted) : key[item[1]] < key[sorted[i][1]]}
        pos == IF after = {} THEN Len(sorted) + 1 ELSE SetMin(after)
    IN  SubSeq(sorted, 1, pos - 1) \o <<item>> \o SubSeq(sorted, pos, Len(sorted))

\* sorted(items, key=...) and items.sort(key=...): stable, ascending by the
\* key of the item's token, key[token]
StableSort(items, key) ==
    LET Sort[i \in 0..Len(items)] ==
            IF i = 0 THEN <<>> ELSE InsertStable(Sort[i - 1], items[i], key)
    IN  Sort[Len(items)]

\* key=lambda tup: tup[0]: the token, in string order
ByToken(counter) == [t \in {counter[i][1] : i \in 1..Len(counter)} |-> Rank(t)]

\* key=lambda tup: tup[1], reverse=True: the count, descending; a reversed
\* sort is stable too, so it is the ascending sort by the negated count
ByCountReversed(counter) ==
    [t \in {counter[i][1] : i \in 1..Len(counter)} |->
        -(CHOOSE c \in {counter[i][2] : i \in 1..Len(counter)} :
             \E i \in 1..Len(counter) : counter[i] = <<t, c>>)]

\* seq[:limit]: a negative limit counts from the end
SliceTo(seq, limit) ==
    IF limit >= 0 THEN SubSeq(seq, 1, Min2(limit, Len(seq)))
    ELSE SubSeq(seq, 1, Len(seq) + limit)

\* A faulty variant of sort_and_cut: no alphabetical sort before the frequency sort.
sort_and_cut_by_frequency(counter, limit) ==
    LET tokens_and_frequencies == StableSort(counter, ByCountReversed(counter))
    IN  [i \in 1..Len(SliceTo(tokens_and_frequencies, limit)) |->
            tokens_and_frequencies[i][1]]

\* sorted(counter.items(), key=tup[0]); .sort(key=tup[1], reverse=True); [:limit]
sort_and_cut(counter, limit) ==
    LET alphabetical == StableSort(counter, ByToken(counter))
        tokens_and_frequencies ==
            StableSort(alphabetical, ByCountReversed(counter))
    IN  [i \in 1..Len(SliceTo(tokens_and_frequencies, limit)) |->
            tokens_and_frequencies[i][1]]

\* build_vocab(field, max_size, min_freq, data, vocab_file=None): `tokens` are
\* the tokens of the field over data.examples, in corpus order.
build_vocab(tokens, max_size, min_freq) ==
    LET counter == IF min_freq > -1
                   THEN filter_min(Counter(tokens), min_freq)
                   ELSE Counter(tokens)
        vocab_tokens == specials \o sort_and_cut(counter, max_size)
    IN  IF vocab_tokens[DEFAULT_UNK_ID] # specials[1] THEN Raise("AssertionError")
        ELSE IF ~(Len(vocab_tokens) <= max_size + Len(specials))
             THEN Raise("AssertionError")
        ELSE Ok(vocab_tokens)

Tokens == {Alphabet[i] : i \in 1..Len(Alphabet)}
Corpora == UNION {[1..n -> Tokens] : n \in 0..MaxCorpus}
\* voc_limit: -1 (load_data's default) or a size
MaxSizes == -1..Len(Alphabet)
\* voc_min_freq: -1 (no filter) or a frequency
MinFreqs == -1..2

BuildVocab ==
    /\ Idle
    /\ \E tokens \in Corpora, max_size \in MaxSizes, min_freq \in MinFreqs :
        /\ op' = "build_vocab"
        /\ args' = [tokens |-> tokens, max_size |-> max_size, min_freq |-> min_freq]
        /\ result' = build_vocab(tokens, max_size, min_freq)
        /\ UNCHANGED <<lineno, examples>>

NextVocab == BuildVocab \/ Return

SpecVocab == InitIdle /\ [][NextVocab]_vars

\* The number of occurrences of token t in the corpus.
Frequency(t) == Cardinality({i \in 1..Len(args.tokens) : args.tokens[i] = t})

\* The tokens that survive the minimum-frequency filter.
Survivors ==
    {t \in Tokens : Frequency(t) > 0
                    /\ (args.min_freq > -1 => Frequency(t) >= args.min_freq)}

\* a comes before b: more frequent, or as frequent and alphabetically smaller.
Before(a, b) ==
    \/ Frequency(a) > Frequency(b)
    \/ Frequency(a) = Frequency(b) /\ Rank(a) < Rank(b)

\* seq holds the first n of the surviving tokens in the order Before.
IsFirstOfOrdering(seq, n) ==
    /\ Len(seq) = Min2(n, Cardinality(Survivors))
    /\ \A i \in 1..Len(seq) : seq[i] \in Survivors
    /\ \A i \in 1..Len(seq) : \A j \in (i + 1)..Len(seq) : Before(seq[i], seq[j])
    /\ \A t \in Survivors \ {seq[i] : i \in 1..Len(seq)} :
          \A i \in 1..Len(seq) : Before(seq[i], t)

AfterSpecials(vocab) == SubSeq(vocab, Len(specials) + 1, Len(vocab))

\* C4: with max_size = -1 and no vocab file the size is unbounded: build_vocab
\* completes, and the vocabulary is the four special tokens followed by every
\* token that survives the minimum-frequency filter.
C4_MinusOneIsUnbounded ==
    (op = "build_vocab" /\ args.max_size = -1) =>
        /\ result.status = "ok"
        /\ SubSeq(result.value, 1, Len(specials)) = specials
        /\ IsFirstOfOrdering(AfterSpecials(result.value), Cardinality(Survivors))

\* C5: for max_size >= 0 the vocabulary is the four specials, in their order,
\* followed by the first max_size surviving tokens in non-increasing frequency
\* order, alphabetical among tokens of equal frequency.
C5_FrequencyThenAlphabetical ==
    (op = "build_vocab" /\ args.max_size >= 0) =>
        /\ result.status = "ok"
        /\ SubSeq(result.value, 1, Len(specials)) = specials
        /\ IsFirstOfOrdering(AfterSpecials(result.value), args.max_size)

\* Counts b:2, a:2, c:1, the corpus naming b first: the vocabulary orders a, b, c.
C5_Witness ==
    /\ IsCall("build_vocab")
    /\ args.tokens = <<"b", "b", "a", "a", "c">>
    /\ args.max_size = 3 /\ args.min_freq = 1
    /\ AfterSpecials(result.value) = <<"a", "b", "c">>

\* -------------------------------------------------------------------- tile

\* A tensor is its size and its elements in row-major (contiguous) order:
\* [shape |-> <<s1, ..., sr>>, data |-> <<e1, ..., en>>].  Axes are numbered
\* from 1 (the source's dim d is d + 1 here), coordinates from 0.
Numel(shape) ==
    LET Prod[i \in 0..Len(shape)] == IF i = 0 THEN 1 ELSE Prod[i - 1] * shape[i]
    IN  Prod[Len(shape)]

\* The distance in `data` between neighbours along axis d.
Stride(shape, d) == Numel(SubSeq(shape, d + 1, Len(shape)))

\* The coordinate along axis d of the element at offset `flat` (from 0).
Coord(flat, shape, d) == (flat \div Stride(shape, d)) % shape[d]

\* The offset (from 0) of the element at coordinates `coords`.
Flat(coords, shape) ==
    LET Sum[d \in 0..Len(shape)] ==
            IF d = 0 THEN 0 ELSE Sum[d - 1] + coords[d] * Stride(shape, d)
    IN  Sum[Len(shape)]

At(x, coords) == x.data[Flat(coords, x.shape) + 1]

\* The n elements of a tensor, stored in order.
Stored(elements, n) == SubSeq(elements, 1, n)

\* x.permute(perm).contiguous(): axis i of the result is axis perm[i] of x
Permute(x, perm) ==
    LET shape == [i \in 1..Len(perm) |-> x.shape[perm[i]]]
        from(flat) ==
            [d \in 1..Len(perm) |->
                Coord(flat, shape, CHOOSE i \in 1..Len(perm) : perm[i] = d)]
    IN  [shape |-> shape,
         data |-> Stored([f \in 1..Numel(shape) |-> At(x, from(f - 1))],
                         Numel(shape))]

\* x.view(*shape) of a contiguous tensor
View(x, shape) == [shape |-> shape, data |-> x.data]

\* x.transpose(0, 1) of a matrix
Transpose(x) == Permute(x, <<2, 1>>)

\* x.repeat(count, 1) of a matrix: the whole block of rows, count times over
Repeat(x, count) ==
    [shape |-> <<x.shape[1] * count, x.shape[2]>>,
     data |-> Stored([f \in 1..(Len(x.data) * count) |->
                          x.data[((f - 1) % Len(x.data)) + 1]],
                     Len(x.data) * count)]

\* perm = list(range(len(x.size()))); perm[0], perm[dim] = perm[dim], perm[0]
SwapPerm(rank, dim) ==
    [i \in 1..rank |-> IF i = 1 THEN dim ELSE IF i = dim THEN 1 ELSE i]

\* A faulty variant of TileTensor: repeat without the two transposes, which repeats
\* the whole batch count times over.
TileTensorInterleaved(x, count, dim) ==
    LET perm == SwapPerm(Len(x.shape), dim)
        x1 == IF dim # 1 THEN Permute(x, perm) ELSE x
        out_size == [x1.shape EXCEPT ![1] = @ * count]
        batch == x1.shape[1]
        x2 == View(Repeat(View(x1, <<batch, Numel(x1.shape) \div batch>>), count),
                   out_size)
    IN  IF dim # 1 THEN Permute(x2, perm) ELSE x2

\* tile of one tensor: the lines after the tuple branch.
TileTensor(x, count, dim) ==
    LET perm == SwapPerm(Len(x.shape), dim)
        x1 == IF dim # 1 THEN Permute(x, perm) ELSE x
        out_size == [x1.shape EXCEPT ![1] = @ * count]
        batch == x1.shape[1]
        x2 == View(Transpose(Repeat(Transpose(
                       View(x1, <<batch, Numel(x1.shape) \div batch>>)), count)),
                   out_size)
    IN  IF dim # 1 THEN Permute(x2, perm) ELSE x2

\* tile(x, count, dim): a pair (h, c) is tiled member by member
tile(x, count, dim) ==
    IF x.tuple
    THEN [tuple |-> TRUE,
          h |-> TileTensor(x.h, count, dim), c |-> TileTensor(x.c, count, dim)]
    ELSE [tuple |-> FALSE, h |-> TileTensor(x.h, count, dim), c |-> x.c]

TensorShapes == UNION {[1..r -> 1..MaxSize] : r \in 1..MaxRank}
\* The tensor of a shape whose elements are base+1, base+2, ...: tile only
\* moves elements, so distinct elements show where each one went.
Labelled(shape, base) ==
    [shape |-> shape, data |-> [f \in 1..Numel(shape) |-> base + f]]
NoTensor == [shape |-> <<>>, data |-> <<>>]
\* A single state (held in h), or a pair (h, c) of states of one shape.
States ==
    {[tuple |-> FALSE, h |-> Labelled(s, 0), c |-> NoTensor] : s \in TensorShapes}
    \cup {[tuple |-> TRUE, h |-> Labelled(s, 0), c |-> Labelled(s, Numel(s))] :
            s \in TensorShapes}

Tile ==
    /\ Idle
    /\ \E x \in States, count \in 1..MaxCount :
        \E dim \in 1..Len(x.h.shape) :
            /\ op' = "tile"
            /\ args' = [x |-> x, count |-> count, dim |-> dim]
            /\ result' = Ok(tile(x, count, dim))
            /\ UNCHANGED <<lineno, examples>>

NextTile == Tile \/ Return

SpecTile == InitIdle /\ [][NextTile]_vars

\* All coordinate vectors of a shape.
CoordsOf(shape) ==
    {c \in [1..Len(shape) -> 0..(MaxSize - 1)] :
        \A d \in 1..Len(shape) : c[d] < shape[d]}

\* out is x with every slice along dim repeated k times in place: same rank,
\* size k times larger along dim and unchanged elsewhere, and the slice at
\* i*k + j (0 <= j < k) equal to x's slice at i.
IsTiled(out, x, k, dim) ==
    /\ Len(out.shape) = Len(x.shape)
    /\ \A d \in 1..Len(x.shape) :
          out.shape[d] = IF d = dim THEN x.shape[d] * k ELSE x.shape[d]
    /\ Len(out.data) = Numel(out.shape)
    /\ \A ci \in CoordsOf(x.shape) : \A j \in 0..(k - 1) :
          At(out, [ci EXCEPT ![dim] = @ * k + j]) = At(x, ci)

\* C6: tile(x, k, dim) of a single state x keeps the rank, multiplies the size
\* along dim by k, leaves the other sizes alone, and puts at index i*k + j
\* along dim (0 <= j < k) a copy of the original slice at index i.
C6_TileRepeatsInPlace ==
    (op = "tile" /\ ~args.x.tuple) =>
        /\ result.status = "ok"
        /\ IsTiled(result.value.h, args.x.h, args.count, args.dim)

\* A state of two rows tiled three times along the batch axis:
\* row0, row0, row0, row1, row1, row1.
C6_Witness ==
    /\ IsCall("tile") /\ ~args.x.tuple
    /\ args.x.h.shape = <<2, 2>> /\ args.count = 3 /\ args.dim = 1
    /\ result.value.h.shape = <<6, 2>>
    /\ result.value.h.data = <<1, 2, 1, 2, 1, 2, 3, 4, 3, 4, 3, 4>>

\* ----------------------------------------------- WeightedTranslationDataset

\* A line is the sequence of its characters, without the line terminator.
Whitespace == {" "}
Digits == <<"0", "1">>
IsDigit(ch) == \E i \in 1..Len(Digits) : Digits[i] = ch
DigitValue(ch) == (CHOOSE i \in 1..Len(Digits) : Digits[i] = ch) - 1

\* line.strip()
Strip(line) ==
    LET solid == {i \in 1..Len(line) : line[i] \notin Whitespace}
    IN  IF solid = {} THEN <<>> ELSE SubSeq(line, SetMin(solid), SetMax(solid))

\* line.split(" "): the pieces between single spaces; "".split(" ") is [""]
Split(line) ==
    LET seps == {i \in 1..Len(line) : line[i] = " "}
        starts == {0} \cup seps
        ends == seps \cup {Len(line) + 1}
        nth(k) == CHOOSE a \in starts : Cardinality({b \in starts : b < a}) = k - 1
    IN  [k \in 1..Cardinality(starts) |->
            SubSeq(line, nth(k) + 1, SetMin({b \in ends : b > nth(k)}) - 1)]

\* float(weight) succeeds on a numeral and raises ValueError on "" and on text.
IsFloat(token) == token # <<>> /\ \A i \in 1..Len(token) : IsDigit(token[i])
Float(token) ==
    LET Val[i \in 0..Len(token)] ==
            IF i = 0 THEN 0 ELSE 10 * Val[i - 1] + DigitValue(token[i])
    IN  Val[Len(token)]

\* np.exp(float(weight)) if log_weights else float(weight), left symbolic
Weight(token, log_weights) == [exp |-> log_weights, of |-> Float(token)]

\* The weights of a weight line, when every token of it is a float.
Weights(weights_line, log_weights) ==
    LET tokens == Split(Strip(weights_line))
    IN  [k \in 1..Len(tokens) |-> Weight(tokens[k], log_weights)]

WellFormed(weights_line) ==
    LET tokens == Split(Strip(weights_line))
    IN  \A k \in 1..Len(tokens) : IsFloat(tokens[k])

\* A faulty variant of ZipTriple: the weight file is not advanced with the corpus.
ZipTripleStaleWeights(src_file, trg_file, weight_file, i) ==
    <<src_file[i], trg_file[i], weight_file[1]>>

\* The i-th item of zip(src_file, trg_file, weight_file)
ZipTriple(src_file, trg_file, weight_file, i) ==
    <<src_file[i], trg_file[i], weight_file[i]>>

\* The number of items of zip(src_file, trg_file, weight_file)
ZipLen(src_file, trg_file, weight_file) ==
    Min2(Len(src_file), Min2(Len(trg_file), Len(weight_file)))

\* data.Example.fromlist([src_line, trg_line, weights], fields)
Example(src_line, trg_line, weights) ==
    [src |-> src_line, trg |-> trg_line, weights |-> weights]

SrcLines == {<<>>, <<" ">>, <<"a">>}
TrgLines == {<<>>, <<"x">>, <<"y">>}
WeightLines == {<<>>, <<"1">>, <<"0", " ", "1">>, <<"x">>}
Files(lines) == UNION {[1..n -> lines] : n \in 0..MaxLines}

Reading == op = "WeightedTranslationDataset" /\ result.status = "reading"

\* __init__ up to the loop: the three files are open, examples = []
Open ==
    /\ Idle
    /\ \E src_file \in Files(SrcLines), trg_file \in Files(TrgLines),
          weight_file \in Files(WeightLines), log_weights \in BOOLEAN :
        /\ op' = "WeightedTranslationDataset"
        /\ args' = [src_file |-> src_file, trg_file |-> trg_file,
                    weight_file |-> weight_file, log_weights |-> log_weights]
        /\ result' = [status |-> "reading", value |-> <<>>]
        /\ lineno' = 0
        /\ examples' = <<>>

\* One iteration of the loop over zip(src_file, trg_file, weight_file): the
\* weights are parsed before the lines are tested for emptiness.
ReadLine ==
    /\ Reading
    /\ lineno < ZipLen(args.src_file, args.trg_file, args.weight_file)
    /\ LET triple == ZipTriple(args.src_file, args.trg_file, args.weight_file,
                               lineno + 1)
           src_line == Strip(triple[1])
           trg_line == Strip(triple[2])
       IN  /\ lineno' = lineno + 1
           /\ IF ~WellFormed(triple[3])
              THEN /\ result' = Raise("ValueError")
                   /\ UNCHANGED examples
              ELSE /\ examples' =
                        IF src_line # <<>> /\ trg_line # <<>>
                        THEN Append(examples,
                                    Example(src_line, trg_line,
                                            Weights(triple[3], args.log_weights)))
                        ELSE examples
                   /\ UNCHANGED result
    /\ UNCHANGED <<op, args>>

\* The loop is over: super().__init__(examples, fields)
Finish ==
    /\ Reading
    /\ lineno = ZipLen(args.src_file, args.trg_file, args.weight_file)
    /\ result' = Ok(examples)
    /\ UNCHANGED <<op, args, lineno, examples>>

NextData == Open \/ ReadLine \/ Finish \/ Return

SpecData == InitIdle /\ [][NextData]_vars

InDataset == op = "WeightedTranslationDataset"

\* min(n_src, n_trg, n_w)
Shortest ==
    SetMin({Len(args.src_file), Len(args.trg_file), Len(args.weight_file)})

\* The examples of the line triples 1..n, in line order: line i gives one
\* example, of its own source, target and weight line, unless its source or
\* target line is blank.
RECURSIVE ExamplesOf(_)
ExamplesOf(n) ==
    IF n = 0 THEN <<>>
    ELSE IF Strip(args.src_file[n]) # <<>> /\ Strip(args.trg_file[n]) # <<>>
         THEN Append(ExamplesOf(n - 1),
                     [src |-> Strip(args.src_file[n]),
                      trg |-> Strip(args.trg_file[n]),
                      weights |-> Weights(args.weight_file[n], args.log_weights)])
         ELSE ExamplesOf(n - 1)

\* C7: the three files are read in lock-step: only the first
\* min(n_src, n_trg, n_w) line triples are considered, unequal line counts
\* raise no error (the only error is a malformed weight line among those
\* triples), and the examples are those of one line number each, in
\* increasing line order.
C7_LockStep ==
    InDataset =>
        /\ lineno <= Shortest
        /\ result.status \in {"reading", "ok", "ValueError"}
        /\ result.status = "reading" => examples = ExamplesOf(lineno)
        /\ result.status = "ok" =>
              /\ lineno = Shortest
              /\ result.value = ExamplesOf(Shortest)
        /\ result.status = "ValueError" =>
              /\ ~WellFormed(args.weight_file[lineno])
              /\ examples = ExamplesOf(lineno - 1)
        /\ (\A i \in 1..Shortest : WellFormed(args.weight_file[i])) =>
              result.status # "ValueError"

\* Files of unequal line counts, read to the end of the shortest without an
\* error, every line of it giving an example.
C7_Witness ==
    /\ InDataset /\ result.status = "ok"
    /\ Len(args.src_file) > Len(args.weight_file)
    /\ Len(args.trg_file) > Len(args.weight_file)
    /\ Shortest >= 1
    /\ Len(result.value) = Shortest

\* C8: a line triple whose source or target line is blank is skipped silently,
\* whatever its weight line holds: the line that raises an error, if any, has
\* a source and a target.
C8_BlankLineSkippedSilently ==
    (InDataset /\ lineno >= 1
        /\ (Strip(args.src_file[lineno]) = <<>> \/ Strip(args.trg_file[lineno]) = <<>>))
    => /\ result.status \in {"reading", "ok"}
       /\ examples = ExamplesOf(lineno)

\* ---------------------------------------------------------- token_accuracy

\* A sentence is the sequence of its characters.
\* h.split(split_char): split(" ") for the levels word and bpe; split("")
\* raises ValueError (empty separator).
SplitChar(level) == IF level \in {"word", "bpe"} THEN " " ELSE ""

\* len(list(zip(h.split(" "), r.split(" ")))) pairs, of which those with
\* h_i == r_i are counted
CorrectIn(h, r) ==
    LET hs == Split(h)
        rs == Split(r)
    IN  Cardinality({i \in 1..Min2(Len(hs), Len(rs)) : hs[i] = rs[i]})

\* The loop over zip(hypotheses, references): all_tokens += len(h), the
\* number of characters of h, and correct_tokens += the equal token pairs.
AccuracyCounts(hypotheses, references) ==
    LET Count[i \in 0..Len(hypotheses)] ==
            IF i = 0 THEN [correct_tokens |-> 0, all_tokens |-> 0]
            ELSE [correct_tokens |->
                      Count[i - 1].correct_tokens
                          + CorrectIn(hypotheses[i], references[i]),
                  all_tokens |-> Count[i - 1].all_tokens + Len(hypotheses[i])]
    IN  Count[Len(hypotheses)]

token_accuracy(hypotheses, references, level) ==
    IF Len(hypotheses) # Len(references) THEN Raise("AssertionError")
    ELSE IF SplitChar(level) = "" /\ Len(hypotheses) > 0 THEN Raise("ValueError")
    ELSE LET c == AccuracyCounts(hypotheses, references)
         IN  IF c.all_tokens > 0
             THEN Ok(<<c.correct_tokens * 100, c.all_tokens>>)
             ELSE Ok(Zero)

SentenceChars == {" ", "a", "b"}
Sentences == UNION {[1..n -> SentenceChars] : n \in 0..MaxChars}
SentenceLists == UNION {[1..n -> Sentences] : n \in 0..MaxSents}
Levels == {"word", "bpe", "char"}

TokenAccuracy ==
    /\ Idle
    /\ \E hypotheses \in SentenceLists, references \in SentenceLists,
          level \in Levels :
        /\ op' = "token_accuracy"
        /\ args' = [hypotheses |-> hypotheses, references |-> references,
                    level |-> level]
        /\ result' = token_accuracy(hypotheses, references, level)
        /\ UNCHANGED <<lineno, examples>>

NextAccuracy == TokenAccuracy \/ Return

SpecAccuracy == InitIdle /\ [][NextAccuracy]_vars

\* The whitespace-separated units of a sentence: its maximal runs of
\* characters other than the space, in order.
Words(sentence) ==
    LET n == Len(sentence)
        starts == {i \in 1..n : sentence[i] # " "
                                /\ (i = 1 \/ sentence[i - 1] = " ")}
        nth(k) == CHOOSE a \in starts : Cardinality({b \in starts : b < a}) = k - 1
        end(a) == SetMin({j \in a..n : j = n \/ sentence[j + 1] = " "})
    IN  [k \in 1..Cardinality(starts) |-> SubSeq(sentence, nth(k), end(nth(k)))]

\* The tokens of a sentence at a level: the whitespace-separated units for
\* word and bpe, the single characters for char.
TokensAt(sentence, level) ==
    IF level \in {"word", "bpe"} THEN Words(sentence)
    ELSE [i \in 1..Len(sentence) |-> <<sentence[i]>>]

\* The hypothesis tokens of sentence i, and those of them that stand at the
\* same position in the reference.
HypTokens(i) == Len(TokensAt(args.hypotheses[i], args.level))
CorrectTokens(i) ==
    LET hs == TokensAt(args.hypotheses[i], args.level)
        rs == TokensAt(args.references[i], args.level)
    IN  Cardinality({k \in 1..Min2(Len(hs), Len(rs)) : hs[k] = rs[k]})

RECURSIVE TotalOver(_, _)
TotalOver(n, which) ==
    IF n = 0 THEN 0
    ELSE TotalOver(n - 1, which)
            + (IF which = "correct" THEN CorrectTokens(n) ELSE HypTokens(n))

\* C11: token_accuracy returns, as a percentage, the correct hypothesis tokens
\* over all hypothesis tokens, a token being correct if the same token stands
\* at the same position in the reference; for each of the levels word, bpe
\* (tokens between spaces) and char (single characters).
C11_CorrectOverAllTokens ==
    (op = "token_accuracy" /\ Len(args.hypotheses) = Len(args.references)) =>
        /\ result.status = "ok"
        /\ LET n == Len(args.hypotheses)
           IN  TotalOver(n, "all") > 0 =>
                  RatEq(result.value,
                        <<100 * TotalOver(n, "correct"), TotalOver(n, "all")>>)

====
